---- MODULE Spec2Model ----
(***************************************************************************)
(* Sales Trend Explorer (src/app.py): the synthetic dataset generator      *)
(* load_sample_data, the filter step of main and the four aggregations     *)
(* (monthly sales by category, category totals, top sub-categories,        *)
(* region-by-category matrix).                                             *)
(*                                                                         *)
(* Units.  Sales are whole currency units.  The profit factor drawn by     *)
(* np.random.uniform(0.1, 0.3) is kept in percent (10..29), so the Profit  *)
(* field is kept in hundredths of a currency unit: Profit = sales * pct.   *)
(* Sums are exact (integer) sums; float64 rounding is not modelled.        *)
(*                                                                         *)
(* Random source.  NumPy's global Mersenne Twister is represented by a     *)
(* congruential generator whose increment (bitgen) is chosen in Init, so   *)
(* that the draws after np.random.seed(42) range over a family of streams  *)
(* instead of one fixed stream.                                            *)
(***************************************************************************)
EXTENDS Integers, Sequences, FiniteSets

VARIABLES
    bitgen,               \* which stream family member the random source is
    rng,                  \* state of the global np.random source
    cache,                \* st.cache_data store of load_sample_data: <<>> or <<df>>
    genCalls,             \* how many times the body of load_sample_data has run
    ran,                  \* has the script run at least once in this session
    df,                   \* main's df of the last run
    selected_years,
    selected_categories,
    selected_regions,
    filtered_df,
    total_sales,          \* key metric "Total Sales"
    total_orders,         \* key metric "Total Orders"
    warning,              \* "No data available for selected filters" shown
    monthly_sales,        \* <<>> when create_line_plot was not called, else <<table>>
    category_sales,       \* <<>> when create_bar_chart was not called, else <<table>>
    top_subcats,          \* <<>> when not computed, else <<sequence>>
    heatmap_data,         \* <<>> when create_heatmap was not called, else <<matrix>>
    calls,                \* results of direct invocations of the generator body
    outsideDraws          \* draws made on the global source by code outside the generator

vars == <<bitgen, rng, cache, genCalls, ran, df, selected_years,
          selected_categories, selected_regions, filtered_df, total_sales,
          total_orders, warning, monthly_sales, category_sales, top_subcats,
          heatmap_data, calls, outsideDraws>>

----------------------------------------------------------------------------
(* Bounds *)

\* records built by the generator loop (range(5000) in the source)
NumRecords == 8
\* members of the stream family
NumStreams == 12
\* values np.random.seed may be given by code outside the generator
NumSeeds == 2
\* direct invocations of the generator body that are compared
MaxCalls == 2
\* draws on the global source made outside the generator
MaxOutsideDraws == 2

(* Program constants *)

SEED == 42
TopN == 5
SalesFloor == 50

----------------------------------------------------------------------------
(* Helpers on sequences and sets *)

Range(s) == {s[i] : i \in 1..Len(s)}

RECURSIVE SumSeq(_)
SumSeq(s) == IF s = <<>> THEN 0 ELSE Head(s) + SumSeq(Tail(s))

Max2(a, b) == IF a >= b THEN a ELSE b

----------------------------------------------------------------------------
(* Calendar: pd.date_range('2021-01-01', '2023-12-31', freq='D') *)

FirstYear == 2021
LastYear == 2023

IsLeap(y) == (y % 4 = 0 /\ y % 100 # 0) \/ (y % 400 = 0)

DaysInYear(y) == IF IsLeap(y) THEN 366 ELSE 365

DaysInMonth(y, m) ==
    IF m = 2 THEN (IF IsLeap(y) THEN 29 ELSE 28)
    ELSE IF m \in {4, 6, 9, 11} THEN 30 ELSE 31

\* the date k days after 1 January of year y
RECURSIVE DateFrom(_, _, _)
DateFrom(y, m, k) ==
    IF m = 1 /\ k >= DaysInYear(y) THEN DateFrom(y + 1, 1, k - DaysInYear(y))
    ELSE IF k >= DaysInMonth(y, m) THEN DateFrom(y, m + 1, k - DaysInMonth(y, m))
    ELSE [year |-> y, month |-> m, day |-> k + 1]

RECURSIVE DaysThrough(_)
DaysThrough(y) == IF y < FirstYear THEN 0 ELSE DaysInYear(y) + DaysThrough(y - 1)

dates == [i \in 1..DaysThrough(LastYear) |-> DateFrom(FirstYear, 1, i - 1)]

categories == <<"Technology", "Furniture", "Office Supplies">>

subcategories(category) ==
    CASE category = "Technology" -> <<"Phones", "Computers", "Accessories">>
      [] category = "Furniture" -> <<"Chairs", "Tables", "Storage">>
      [] category = "Office Supplies" -> <<"Paper", "Binders", "Art">>

regions == <<"Central", "East", "South", "West">>

base_sales(category) ==
    CASE category = "Technology" -> 1000
      [] category = "Furniture" -> 800
      [] category = "Office Supplies" -> 300

----------------------------------------------------------------------------
(* The global random source *)

\* np.random.seed(s): the state the source is put in
SeedState(s) == (s * 389 + 17) % 8191

\* one step of the bit generator: the new state is also the raw output
NextRaw(g, x) == (1103 * x + 2 * g + 1) % 8191

\* np.random.choice(seq): a uniform index into seq
Choice(seq, raw) == seq[(raw % Len(seq)) + 1]

\* np.random.normal(mu, sigma): mu plus a whole number of standard deviations
ZScores == <<-4, -3, -2, -1, 0, 0, 1, 2>>
Normal(mu, sigma, raw) == mu + sigma * Choice(ZScores, raw)

\* np.random.uniform(low, high) in percent: low <= result < high
Uniform(low, high, raw) == low + (raw % (high - low))

\* (variant) randint with the upper bound included
RandintInclusive(low, high, raw) == low + (raw % (high - low + 1))

\* np.random.randint(low, high): low <= result < high
Randint(low, high, raw) == low + (raw % (high - low))

----------------------------------------------------------------------------
(* load_sample_data *)

\* one iteration of the generator loop: seven draws, in this order
\* (date, category, sub-category, region, sales, profit factor, quantity)
LoopBody(g, x) ==
    LET x1 == NextRaw(g, x)
        x2 == NextRaw(g, x1)
        x3 == NextRaw(g, x2)
        x4 == NextRaw(g, x3)
        x5 == NextRaw(g, x4)
        x6 == NextRaw(g, x5)
        x7 == NextRaw(g, x6)
        date == Choice(dates, x1)
        category == Choice(categories, x2)
        subcategory == Choice(subcategories(category), x3)
        region == Choice(regions, x4)
        sales == Normal(base_sales(category), (base_sales(category) * 3) \div 10, x5)
        profit == sales * Uniform(10, 30, x6)
        quantity == Randint(1, 10, x7)
    IN  [row |-> [OrderDate |-> date,
                  Category |-> category,
                  SubCategory |-> subcategory,
                  Region |-> region,
                  Sales |-> Max2(sales, SalesFloor),
                  Profit |-> profit,
                  Quantity |-> quantity],
         rng |-> x7]

\* for _ in range(NumRecords): data.append(...).  Each iteration's result is
\* bound as a value (step) before the next iteration reads it.
RECURSIVE GenLoop(_, _, _, _)
GenLoop(g, x, n, data) ==
    IF n = 0 THEN [data |-> data, rng |-> x]
    ELSE CHOOSE out \in {GenLoop(g, step.rng, n - 1, Append(data, step.row)) :
                            step \in {LoopBody(g, x)}} : TRUE

\* the columns added after the loop: Year, Month and Year-Month of Order Date
DerivedColumns(row) ==
    [OrderDate |-> row.OrderDate,
     Category |-> row.Category,
     SubCategory |-> row.SubCategory,
     Region |-> row.Region,
     Sales |-> row.Sales,
     Profit |-> row.Profit,
     Quantity |-> row.Quantity,
     Year |-> row.OrderDate.year,
     Month |-> row.OrderDate.month,
     YearMonth |-> [year |-> row.OrderDate.year, month |-> row.OrderDate.month]]

\* (variant) no re-seeding: the generator draws from wherever the source is
EntryStateUnseeded(x) == x

\* the state the generator starts drawing from: it re-seeds at entry
EntryState(x) == SeedState(SEED)

\* the body of load_sample_data, run with the global source in state x
GeneratorBody(g, x) ==
    CHOOSE res \in {[df |-> [i \in 1..Len(out.data) |-> DerivedColumns(out.data[i])],
                     rng |-> out.rng] :
                        out \in {GenLoop(g, EntryState(x), NumRecords, <<>>)}} : TRUE

\* (variant) no caching: the body runs on every call
CacheNeverHit(c) == FALSE

\* @st.cache_data: the body runs only when nothing is cached
CacheHit(c) == c # <<>>

\* load_sample_data() as main calls it
load_sample_data(c, g, x) ==
    IF CacheHit(c)
    THEN [df |-> c[1], cache |-> c, rng |-> x, ranBody |-> 0]
    ELSE CHOOSE res \in {[df |-> out.df, cache |-> <<out.df>>, rng |-> out.rng,
                          ranBody |-> 1] : out \in {GeneratorBody(g, x)}} : TRUE

----------------------------------------------------------------------------
(* Aggregations *)

Column(d, f) == {d[i][f] : i \in 1..Len(d)}

SalesOf(d) == SumSeq([i \in 1..Len(d) |-> d[i].Sales])

\* group keys come out of groupby in sorted order
SortedCategoryKeys == <<"Furniture", "Office Supplies", "Technology">>
SortedSubCategoryKeys ==
    <<"Accessories", "Art", "Binders", "Chairs", "Computers", "Paper",
      "Phones", "Storage", "Tables">>
SortedRegionKeys == <<"Central", "East", "South", "West">>
SortedPeriodKeys ==
    [i \in 1..(12 * (LastYear - FirstYear + 1)) |->
        [year |-> FirstYear + ((i - 1) \div 12), month |-> ((i - 1) % 12) + 1]]
SortedPeriodCategoryKeys ==
    [i \in 1..(Len(SortedPeriodKeys) * Len(SortedCategoryKeys)) |->
        [YearMonth |-> SortedPeriodKeys[((i - 1) \div Len(SortedCategoryKeys)) + 1],
         Category |-> SortedCategoryKeys[((i - 1) % Len(SortedCategoryKeys)) + 1]]]

\* create_line_plot: monthly_sales
create_line_plot(d) ==
    LET keys == SelectSeq(SortedPeriodCategoryKeys,
                    LAMBDA k : \E i \in 1..Len(d) :
                        d[i].YearMonth = k.YearMonth /\ d[i].Category = k.Category)
    IN  [j \in 1..Len(keys) |->
            [YearMonth |-> keys[j].YearMonth,
             Category |-> keys[j].Category,
             Sales |-> SalesOf(SelectSeq(d, LAMBDA r :
                          r.YearMonth = keys[j].YearMonth
                          /\ r.Category = keys[j].Category))]]

\* (variant) the per-category mean in place of the sum
create_bar_chart_mean(d) ==
    LET keys == SelectSeq(SortedCategoryKeys, LAMBDA k : k \in Column(d, "Category"))
    IN  [j \in 1..Len(keys) |->
            [Category |-> keys[j],
             Sales |-> SalesOf(SelectSeq(d, LAMBDA r : r.Category = keys[j]))
                        \div Len(SelectSeq(d, LAMBDA r : r.Category = keys[j]))]]

\* create_bar_chart: category_sales
create_bar_chart(d) ==
    LET keys == SelectSeq(SortedCategoryKeys, LAMBDA k : k \in Column(d, "Category"))
    IN  [j \in 1..Len(keys) |->
            [Category |-> keys[j],
             Sales |-> SalesOf(SelectSeq(d, LAMBDA r : r.Category = keys[j]))]]

\* groupby('Sub-Category')['Sales'].sum()
SubCategorySums(d) ==
    LET keys == SelectSeq(SortedSubCategoryKeys,
                    LAMBDA k : k \in Column(d, "SubCategory"))
    IN  [j \in 1..Len(keys) |->
            [SubCategory |-> keys[j],
             Sales |-> SalesOf(SelectSeq(d, LAMBDA r : r.SubCategory = keys[j]))]]

\* sort_values(ascending=False) with the default sort kind, which is not
\* stable: every arrangement in non-increasing order of Sales is an outcome
RECURSIVE Arrangements(_, _)
Arrangements(s, idx) ==
    IF idx = {} THEN {<<>>}
    ELSE LET top == {i \in idx : \A j \in idx : s[i].Sales >= s[j].Sales}
         IN  UNION {{<<s[i]>> \o rest : rest \in Arrangements(s, idx \ {i})} : i \in top}

\* (variant) the grouped sums left in key order
sort_values_skipped(s) == {s}

sort_values(s) == UNION {Arrangements(v, 1..Len(v)) : v \in {s}}

\* (variant) one entry too many
head_plus_one(s, n) == IF Len(s) <= n + 1 THEN s ELSE SubSeq(s, 1, n + 1)

\* head(n)
head(s, n) == IF Len(s) <= n THEN s ELSE SubSeq(s, 1, n)

\* the outcomes of
\* groupby('Sub-Category')['Sales'].sum().sort_values(ascending=False).head(5)
top_subcategories(d) == {head(s, TopN) : s \in sort_values(SubCategorySums(d))}

\* (variant) unstack without fill_value: only the pairs that have records
create_heatmap_sparse(d) ==
    [r \in Column(d, "Region") |->
        [c \in {d[i].Category : i \in {k \in 1..Len(d) : d[k].Region = r}} |->
            SalesOf(SelectSeq(d, LAMBDA x : x.Region = r /\ x.Category = c))]]

\* create_heatmap: heatmap_data, unstack(fill_value=0) of the (Region, Category) sums
create_heatmap(d) ==
    [r \in Column(d, "Region") |->
        [c \in Column(d, "Category") |->
            SalesOf(SelectSeq(d, LAMBDA x : x.Region = r /\ x.Category = c))]]

----------------------------------------------------------------------------
(* main *)

\* (variant) the three conditions OR-combined
MaskAny(r, years, cats, regs) ==
    r.Year \in years \/ r.Category \in cats \/ r.Region \in regs

\* the isin() mask of the filter step
Mask(r, years, cats, regs) ==
    r.Year \in years /\ r.Category \in cats /\ r.Region \in regs

FilterData(d, years, cats, regs) ==
    SelectSeq(d, LAMBDA r : Mask(r, years, cats, regs))

\* (variant) the chart sections without their guard
HasDataUnguarded(f) == TRUE

\* the "if len(filtered_df) > 0" guard of the four chart sections
HasData(f) == Len(f) > 0

\* one run of the script with the widgets holding the given selections
main(years, cats, regs) ==
    \E loaded \in {load_sample_data(cache, bitgen, rng)} :
    \E f \in {FilterData(loaded.df, years, cats, regs)} :
        /\ cache' = loaded.cache
        /\ rng' = loaded.rng
        /\ genCalls' = genCalls + loaded.ranBody
        /\ ran' = TRUE
        /\ df' = loaded.df
        /\ selected_years' = years
        /\ selected_categories' = cats
        /\ selected_regions' = regs
        /\ filtered_df' = f
        /\ total_sales' = SalesOf(f)
        /\ total_orders' = Len(f)
        /\ warning' = ~HasData(f)
        /\ monthly_sales' = IF HasData(f) THEN <<create_line_plot(f)>> ELSE <<>>
        /\ category_sales' = IF HasData(f) THEN <<create_bar_chart(f)>> ELSE <<>>
        /\ IF HasData(f)
           THEN \E t \in top_subcategories(f) : top_subcats' = <<t>>
           ELSE top_subcats' = <<>>
        /\ heatmap_data' = IF HasData(f) THEN <<create_heatmap(f)>> ELSE <<>>
        /\ UNCHANGED <<bitgen, calls, outsideDraws>>

\* the first run of a session: every multiselect holds its default, all options
FirstRun ==
    /\ ~ran
    /\ \E d \in {load_sample_data(cache, bitgen, rng).df} :
          main(Column(d, "Year"), Column(d, "Category"), Column(d, "Region"))

Toggle(S, x) == IF x \in S THEN S \ {x} ELSE S \cup {x}

\* the user changes one multiselect; the script re-runs
ChangeYears ==
    /\ ran
    /\ \E y \in Column(df, "Year") :
          main(Toggle(selected_years, y), selected_categories, selected_regions)

ChangeCategories ==
    /\ ran
    /\ \E c \in Column(df, "Category") :
          main(selected_years, Toggle(selected_categories, c), selected_regions)

ChangeRegions ==
    /\ ran
    /\ \E r \in Column(df, "Region") :
          main(selected_years, selected_categories, Toggle(selected_regions, r))

Init ==
    /\ bitgen \in 0..(NumStreams - 1)
    /\ rng \in {SeedState(s) : s \in 0..(NumSeeds - 1)}
    /\ cache = <<>>
    /\ genCalls = 0
    /\ ran = FALSE
    /\ df = <<>>
    /\ selected_years = {}
    /\ selected_categories = {}
    /\ selected_regions = {}
    /\ filtered_df = <<>>
    /\ total_sales = 0
    /\ total_orders = 0
    /\ warning = FALSE
    /\ monthly_sales = <<>>
    /\ category_sales = <<>>
    /\ top_subcats = <<>>
    /\ heatmap_data = <<>>
    /\ calls = <<>>
    /\ outsideDraws = 0

Next == FirstRun \/ ChangeYears \/ ChangeCategories \/ ChangeRegions

Spec == Init /\ [][Next]_vars

----------------------------------------------------------------------------
(* The generator invoked directly, with the global source in any state *)

frame == <<cache, genCalls, ran, df, selected_years, selected_categories,
           selected_regions, filtered_df, total_sales, total_orders, warning,
           monthly_sales, category_sales, top_subcats, heatmap_data>>

\* the body of load_sample_data runs (no cached value is used)
InvokeGenerator ==
    /\ Len(calls) < MaxCalls
    /\ \E out \in {GeneratorBody(bitgen, rng)} :
          /\ calls' = Append(calls, [entry |-> rng, df |-> out.df, exit |-> out.rng])
          /\ rng' = out.rng
    /\ UNCHANGED <<bitgen, outsideDraws, frame>>

\* other code re-seeds the global source
OutsideSeed ==
    /\ \E s \in 0..(NumSeeds - 1) : rng' = SeedState(s)
    /\ UNCHANGED <<bitgen, calls, outsideDraws, frame>>

\* other code draws from the global source
OutsideDraw ==
    /\ outsideDraws < MaxOutsideDraws
    /\ rng' = NextRaw(bitgen, rng)
    /\ outsideDraws' = outsideDraws + 1
    /\ UNCHANGED <<bitgen, calls, frame>>

NextGen == InvokeGenerator \/ OutsideSeed \/ OutsideDraw

SpecGen == Init /\ [][NextGen]_vars

----------------------------------------------------------------------------
(* Properties *)

\* the sum of val[i] over the indices i of S
RECURSIVE SumOver(_, _)
SumOver(S, val) ==
    IF S = {} THEN 0
    ELSE LET i == CHOOSE k \in S : TRUE IN val[i] + SumOver(S \ {i}, val)

\* the sales of the records of d whose field f is v, summed record by record
FieldSales(d, f, v) ==
    SumOver({i \in 1..Len(d) : d[i][f] = v}, [i \in 1..Len(d) |-> d[i].Sales])

CellSales(d, r, c) ==
    SumOver({i \in 1..Len(d) : d[i].Region = r /\ d[i].Category = c},
            [i \in 1..Len(d) |-> d[i].Sales])

\* the index of the first record of d whose sub-category is k
FirstSeen(d, k) ==
    CHOOSE i \in 1..Len(d) :
        d[i].SubCategory = k /\ \A j \in 1..(i - 1) : d[j].SubCategory # k

Selected(r) ==
    /\ r.Year \in selected_years
    /\ r.Category \in selected_categories
    /\ r.Region \in selected_regions

\* C1: the filtered view is exactly the records of the base dataset whose
\* year, category and region are all selected; each of its records is a record
\* of the base dataset, unaltered, and none is added or dropped.
C1_FilterExact ==
    ran =>
        /\ Range(filtered_df) = {r \in Range(df) : Selected(r)}
        /\ Len(filtered_df) = Cardinality({i \in 1..Len(df) : Selected(df[i])})
        /\ \A i \in 1..Len(filtered_df) : \E j \in 1..Len(df) : filtered_df[i] = df[j]

\* a run whose view keeps some records and drops one only for its region
C1_Witness ==
    /\ ran
    /\ Len(filtered_df) > 0
    /\ \E i \in 1..Len(df) :
          /\ df[i].Year \in selected_years
          /\ df[i].Category \in selected_categories
          /\ df[i].Region \notin selected_regions

\* C2 (as claimed): every generated record has
\* 0.1 * sales <= profit <= 0.3 * sales for the stored, floor-clamped sales
\* (Profit is in hundredths, the factor in percent).
C2_ProfitFractionOfSales ==
    cache # <<>> =>
        \A r \in Range(cache[1]) :
            10 * r.Sales <= r.Profit /\ r.Profit <= 30 * r.Sales

\* C3 (as claimed): for a non-empty view the matrix has an entry for every
\* (region, category) pair of the base dataset, 0 where the view has no record.
C3_DenseOverBase ==
    (ran /\ Len(filtered_df) > 0) =>
        /\ heatmap_data # <<>>
        /\ \A r \in Column(df, "Region") : \A c \in Column(df, "Category") :
              /\ r \in DOMAIN heatmap_data[1]
              /\ c \in DOMAIN heatmap_data[1][r]
              /\ heatmap_data[1][r][c] = CellSales(filtered_df, r, c)

\* C3 (amended): for a non-empty view the matrix has an entry for every pair of
\* a region occurring in the view and a category occurring in the view, with
\* the summed sales of the pair's records, 0 where the pair has none; regions
\* and categories with no record in the view are not part of the matrix.
C3_DenseOverView ==
    (ran /\ Len(filtered_df) > 0) =>
        /\ heatmap_data # <<>>
        /\ DOMAIN heatmap_data[1] = Column(filtered_df, "Region")
        /\ \A r \in DOMAIN heatmap_data[1] :
              /\ DOMAIN heatmap_data[1][r] = Column(filtered_df, "Category")
              /\ \A c \in DOMAIN heatmap_data[1][r] :
                    heatmap_data[1][r][c] = CellSales(filtered_df, r, c)

\* a non-empty view that excludes a region of the base dataset and whose
\* matrix has a zero-filled cell
C3_Witness ==
    /\ ran
    /\ heatmap_data # <<>>
    /\ Column(df, "Region") \ Column(filtered_df, "Region") # {}
    /\ \E r \in DOMAIN heatmap_data[1] : \E c \in DOMAIN heatmap_data[1][r] :
          /\ heatmap_data[1][r][c] = 0
          /\ \A i \in 1..Len(filtered_df) :
                ~(filtered_df[i].Region = r /\ filtered_df[i].Category = c)

\* C4 (as claimed): on an empty view each aggregation yields an empty or
\* zero-filled result of its shape: empty sequence, empty mapping, empty
\* sequence, and a matrix of all known regions and categories mapped to 0.
C4_EmptyShapes ==
    (ran /\ Len(filtered_df) = 0) =>
        /\ monthly_sales = << <<>> >>
        /\ category_sales = << <<>> >>
        /\ top_subcats = << <<>> >>
        /\ heatmap_data = <<[r \in Range(regions) |-> [c \in Range(categories) |-> 0]]>>

\* C4 (amended): on an empty view main calls none of the four aggregations;
\* it shows the no-data warning and no table, empty or zero-filled, is produced.
C4_EmptySkipsAggregations ==
    (ran /\ Len(filtered_df) = 0) =>
        /\ warning
        /\ monthly_sales = <<>>
        /\ category_sales = <<>>
        /\ top_subcats = <<>>
        /\ heatmap_data = <<>>
        /\ total_orders = 0

\* a run with an empty view over a generated dataset
C4_Witness ==
    /\ ran
    /\ Len(df) > 0
    /\ Len(filtered_df) = 0
    /\ warning

\* C5: the top sub-categories result has at most TopN entries; each is a
\* sub-category of the view with the sum of the sales of its records; the
\* entries are in non-increasing order of that sum; no sub-category left out
\* has a larger sum than one that is included.
C5_TopSubCategories ==
    (ran /\ Len(filtered_df) > 0) =>
        /\ top_subcats # <<>>
        /\ LET t == top_subcats[1]
               kept == {t[i].SubCategory : i \in 1..Len(t)}
           IN  /\ Len(t) <= TopN
               /\ Cardinality(kept) = Len(t)
               /\ \A i \in 1..Len(t) :
                     /\ t[i].SubCategory \in Column(filtered_df, "SubCategory")
                     /\ t[i].Sales = FieldSales(filtered_df, "SubCategory", t[i].SubCategory)
               /\ \A i \in 1..(Len(t) - 1) : t[i].Sales >= t[i + 1].Sales
               /\ \A k \in Column(filtered_df, "SubCategory") \ kept :
                     \A i \in 1..Len(t) :
                         FieldSales(filtered_df, "SubCategory", k) <= t[i].Sales

\* a view with more than TopN sub-categories: the result is cut to TopN
C5_Witness ==
    /\ ran
    /\ top_subcats # <<>>
    /\ Len(top_subcats[1]) = TopN
    /\ Cardinality(Column(filtered_df, "SubCategory")) > TopN

\* C6: the per-category totals add up to the sum of the sales of all records
\* of the view, which is the Total Sales metric of the same run.
C6_SumConservation ==
    (ran /\ Len(filtered_df) > 0) =>
        /\ category_sales # <<>>
        /\ SumOver(1..Len(category_sales[1]),
                   [j \in 1..Len(category_sales[1]) |-> category_sales[1][j].Sales])
             = SumOver(1..Len(filtered_df),
                       [i \in 1..Len(filtered_df) |-> filtered_df[i].Sales])
        /\ SumOver(1..Len(category_sales[1]),
                   [j \in 1..Len(category_sales[1]) |-> category_sales[1][j].Sales])
             = total_sales

\* a view with several categories, one of them with several records
C6_Witness ==
    /\ ran
    /\ category_sales # <<>>
    /\ Len(category_sales[1]) >= 2
    /\ \E i \in 1..Len(filtered_df) : \E j \in 1..Len(filtered_df) :
          i # j /\ filtered_df[i].Category = filtered_df[j].Category

InDateRange(d) ==
    /\ d.year \in FirstYear..LastYear
    /\ d.month \in 1..12
    /\ d.day \in 1..DaysInMonth(d.year, d.month)

\* C7: every generated record has its sub-category in the subset of its
\* category, sales >= 50, an integer quantity in 1..9, an order date within
\* 2021-01-01..2023-12-31, and year, month and year-month equal to those of
\* its order date.
C7_DomainIntegrity ==
    cache # <<>> =>
        \A r \in Range(cache[1]) :
            /\ r.Category \in Range(categories)
            /\ r.SubCategory \in Range(subcategories(r.Category))
            /\ r.Region \in Range(regions)
            /\ r.Sales >= 50
            /\ r.Quantity \in 1..9
            /\ InDateRange(r.OrderDate)
            /\ r.Year = r.OrderDate.year
            /\ r.Month = r.OrderDate.month
            /\ r.YearMonth = [year |-> r.OrderDate.year, month |-> r.OrderDate.month]

\* a generated dataset with a record whose sales were clamped and records
\* with the smallest and the largest quantity
C7_Witness ==
    /\ cache # <<>>
    /\ \E r \in Range(cache[1]) : r.Sales = 50 /\ r.Profit < 0
    /\ \E r \in Range(cache[1]) : r.Quantity = 1
    /\ \E r \in Range(cache[1]) : r.Quantity = 9

\* C8: any two invocations of the generator body yield the same sequence of
\* NumRecords records and leave the global source in the same state, whatever
\* state the source was in before each.
C8_Deterministic ==
    \A i \in 1..Len(calls) :
        /\ Len(calls[i].df) = NumRecords
        /\ \A j \in 1..Len(calls) :
              calls[i].df = calls[j].df /\ calls[i].exit = calls[j].exit

\* two invocations entered with the global source in different states
C8_Witness ==
    /\ Len(calls) >= 2
    /\ calls[1].entry # calls[2].entry
    /\ calls[1].entry # SeedState(SEED)

\* what one run derives from the view f
DerivedFrom(f) ==
    /\ total_sales = SalesOf(f)
    /\ total_orders = Len(f)
    /\ monthly_sales = IF Len(f) > 0 THEN <<create_line_plot(f)>> ELSE <<>>
    /\ category_sales = IF Len(f) > 0 THEN <<create_bar_chart(f)>> ELSE <<>>
    /\ heatmap_data = IF Len(f) > 0 THEN <<create_heatmap(f)>> ELSE <<>>
    /\ IF Len(f) > 0
       THEN top_subcats # <<>> /\ top_subcats[1] \in top_subcategories(f)
       ELSE top_subcats = <<>>

\* C9: over any sequence of runs the generator body runs at most once, the
\* cached dataset never changes once stored, every run observes that dataset,
\* and the derived tables of a run are those of the current filtered view,
\* itself the filter of the dataset by the current selections.
C9_GeneratedOnceReadOnly ==
    /\ [](genCalls <= 1)
    /\ [](ran => (cache # <<>> /\ df = cache[1] /\ genCalls = 1))
    /\ [](ran => (filtered_df = FilterData(df, selected_years, selected_categories,
                                           selected_regions)
                  /\ DerivedFrom(filtered_df)))
    /\ [][cache # <<>> => cache' = cache]_vars
    /\ [][ran => df' = df]_vars

\* a re-run after a filter change, with the dataset generated once
C9_Witness ==
    /\ ran
    /\ genCalls = 1
    /\ selected_years # Column(df, "Year")
    /\ selected_regions # Column(df, "Region")
    /\ Len(filtered_df) > 0

\* C10 (as claimed): two sub-categories with equal summed sales appear in the
\* order in which they are first encountered in the view.
C10_TiesByEncounterOrder ==
    top_subcats # <<>> =>
        LET t == top_subcats[1]
        IN  \A i \in 1..Len(t) : \A j \in (i + 1)..Len(t) :
                t[i].Sales = t[j].Sales =>
                    FirstSeen(filtered_df, t[i].SubCategory)
                        < FirstSeen(filtered_df, t[j].SubCategory)

\* C10 (amended): two sub-categories with equal summed sales appear next to
\* each other, separated only by entries of the same sum; which comes first
\* is not fixed by encounter order.
C10_TiesAdjacent ==
    top_subcats # <<>> =>
        LET t == top_subcats[1]
        IN  \A i \in 1..Len(t) : \A j \in (i + 1)..Len(t) :
                t[i].Sales = t[j].Sales =>
                    \A k \in i..j : t[k].Sales = t[i].Sales

\* a result with two tied sub-categories, the one encountered later first
C10_Witness ==
    /\ top_subcats # <<>>
    /\ LET t == top_subcats[1]
       IN  \E i \in 1..Len(t) : \E j \in (i + 1)..Len(t) :
               /\ t[i].Sales = t[j].Sales
               /\ FirstSeen(filtered_df, t[i].SubCategory)
                      > FirstSeen(filtered_df, t[j].SubCategory)

====
